---- MODULE Spec2Model ----
(***************************************************************************)
(* A model of src/client.py: the Spotify client (construction state,       *)
(* download, headers) and the two static identifier conversions            *)
(* gid_to_tid and tid_to_gid.                                               *)
(*                                                                         *)
(* A Python str is a sequence of one-character strings.  A Python int is   *)
(* arbitrary-precision: its magnitude is a sequence of limbs, most         *)
(* significant first, without leading zero limbs (zero is <<>>).           *)
(***************************************************************************)
EXTENDS Integers, Sequences, FiniteSets, TLC

VARIABLES
    arg,        \* codec: the string the caller passes to the first conversion
    first,      \* codec: the conversion called first, "gid_to_tid" or "tid_to_gid"
    res1,       \* codec: outcome of the first conversion
    res2,       \* codec: outcome of the opposite conversion applied to res1's value
    token,      \* client: self.token
    session,    \* client: self.session
    issued,     \* client: the access token the session minted at construction
    created,    \* client: the session created at construction
    fs,         \* the filesystem: path -> content, or NoFile
    hdr,        \* the mapping returned by the latest headers() call
    last        \* the latest download() call: arguments, stream, outcome

codecVars  == <<arg, first, res1, res2>>
clientVars == <<token, session, issued, created, fs, hdr, last>>
vars       == <<arg, first, res1, res2, token, session, issued, created, fs, hdr, last>>

----------------------------------------------------------------------------
(* Characters and strings *)

Digits == <<"0","1","2","3","4","5","6","7","8","9">>
Upper  == <<"A","B","C","D","E","F","G","H","I","J","K","L","M",
            "N","O","P","Q","R","S","T","U","V","W","X","Y","Z">>
Lower  == <<"a","b","c","d","e","f","g","h","i","j","k","l","m",
            "n","o","p","q","r","s","t","u","v","w","x","y","z">>

\* the alphabet with the letter cases in the other order
BASE62_LowerFirst == Digits \o Lower \o Upper

BASE62_CHARSET ==
    <<"0","1","2","3","4","5","6","7","8","9",
      "A","B","C","D","E","F","G","H","I","J","K","L","M",
      "N","O","P","Q","R","S","T","U","V","W","X","Y","Z",
      "a","b","c","d","e","f","g","h","i","j","k","l","m",
      "n","o","p","q","r","s","t","u","v","w","x","y","z">>

Range(s) == {s[i] : i \in DOMAIN s}

\* str.index / position of the first occurrence (1-based); 0 when absent
IndexOf(s, c) ==
    IF c \in Range(s)
    THEN CHOOSE i \in DOMAIN s : s[i] = c /\ \A j \in 1..(i - 1) : s[j] # c
    ELSE 0

Fill(c, n) == [i \in 1..n |-> c]

\* s[i:] of a sequence, i counted from 0 as in Python
Slice(s, i) == IF i >= Len(s) THEN <<>> ELSE SubSeq(s, i + 1, Len(s))

SwapCaseChar(c) ==
    IF IndexOf(Upper, c) # 0 THEN Lower[IndexOf(Upper, c)]
    ELSE IF IndexOf(Lower, c) # 0 THEN Upper[IndexOf(Lower, c)]
    ELSE c

\* str.swapcase on ASCII text
swapcase(s) == [i \in DOMAIN s |-> SwapCaseChar(s[i])]

\* no padding at all
zfill_unpadded(s, width) == s

\* str.zfill: pad with '0' on the left, after a leading sign, up to width
zfill(s, width) ==
    IF Len(s) >= width THEN s
    ELSE IF s # <<>> /\ s[1] \in {"+", "-"}
         THEN <<s[1]>> \o Fill("0", width - Len(s)) \o Tail(s)
         ELSE Fill("0", width - Len(s)) \o s

----------------------------------------------------------------------------
(* Arbitrary-precision integers *)

\* TRUE, and v is evaluated: TLC evaluates the arguments of an operator on
\* demand, a Python loop computes its variables at every iteration.
Strict(v) == v = v

LimbBase == 10000000
HexBase  == 16
Base     == 62
GidWidth == 32

RECURSIVE StripZeroLimbs(_)
StripZeroLimbs(x) ==
    IF x # <<>> /\ Head(x) = 0 THEN StripZeroLimbs(Tail(x)) ELSE x

\* x * m + a, for small m and a: limb i downwards with a carry
RECURSIVE MulAddFrom(_, _, _, _, _)
MulAddFrom(x, m, i, carry, acc) ==
    IF i = 0
    THEN IF carry = 0 THEN acc
         ELSE MulAddFrom(x, m, 0, carry \div LimbBase, <<carry % LimbBase>> \o acc)
    ELSE LET v == x[i] * m + carry
         IN  MulAddFrom(x, m, i - 1, v \div LimbBase, <<v % LimbBase>> \o acc)

MulAdd(x, m, a) == StripZeroLimbs(MulAddFrom(x, m, Len(x), a, <<>>))

\* x // d and x % d for small d: long division from the top limb
RECURSIVE DivModFrom(_, _, _, _, _)
DivModFrom(x, d, i, rem, q) ==
    IF i > Len(x)
    THEN [quot |-> StripZeroLimbs(q), rem |-> rem]
    ELSE LET v == rem * LimbBase + x[i]
         IN  DivModFrom(x, d, i + 1, v % d, Append(q, v \div d))

DivMod(x, d) == DivModFrom(x, d, 1, 0, <<>>)

\* x + y: limb k from the right with a carry
RECURSIVE AddFrom(_, _, _, _, _)
AddFrom(x, y, k, carry, acc) ==
    IF k >= Len(x) /\ k >= Len(y)
    THEN IF carry = 0 THEN acc ELSE <<carry>> \o acc
    ELSE LET xk == IF k < Len(x) THEN x[Len(x) - k] ELSE 0
             yk == IF k < Len(y) THEN y[Len(y) - k] ELSE 0
             v  == xk + yk + carry
         IN  AddFrom(x, y, k + 1, v \div LimbBase, <<v % LimbBase>> \o acc)

Add(x, y) == StripZeroLimbs(AddFrom(x, y, 0, 0, <<>>))

----------------------------------------------------------------------------
(* int(gid, 16) and hex(gid_decimal) *)

Whitespace == {" ", "\t", "\n", "\r", "\f"}

\* the value of a character as a digit, 36 when it is none
DigitValue(c) ==
    IF IndexOf(Digits, c) # 0 THEN IndexOf(Digits, c) - 1
    ELSE IF IndexOf(Lower, c) # 0 THEN IndexOf(Lower, c) + 9
    ELSE IF IndexOf(Upper, c) # 0 THEN IndexOf(Upper, c) + 9
    ELSE 36

RECURSIVE LStrip(_)
LStrip(s) == IF s # <<>> /\ Head(s) \in Whitespace THEN LStrip(Tail(s)) ELSE s

RECURSIVE RStrip(_)
RStrip(s) ==
    IF s # <<>> /\ s[Len(s)] \in Whitespace THEN RStrip(SubSeq(s, 1, Len(s) - 1)) ELSE s

\* the digits of a base-16 literal: hexadecimal digits, single underscores
\* between them only
ValidDigits(d) ==
    /\ d # <<>>
    /\ \A i \in DOMAIN d : d[i] = "_" \/ DigitValue(d[i]) < HexBase
    /\ d[1] # "_"
    /\ d[Len(d)] # "_"
    /\ \A i \in 1..(Len(d) - 1) : ~(d[i] = "_" /\ d[i + 1] = "_")

IsDigit(c) == c # "_"

\* the value of the digits d[i..], appended to the value acc of those before
RECURSIVE AccumulateDigits(_, _, _)
AccumulateDigits(d, i, acc) ==
    IF i > Len(d) \/ ~Strict(acc) THEN acc
    ELSE AccumulateDigits(d, i + 1, MulAdd(acc, HexBase, DigitValue(d[i])))

\* int(s, 16): surrounding whitespace, one optional sign, an optional 0x or
\* 0X prefix (which one underscore may follow), then the digits.
\* [ok |-> FALSE] stands for ValueError.
ParseInt16(s) ==
    LET t      == RStrip(LStrip(s))
        signed == t # <<>> /\ t[1] \in {"+", "-"}
        u      == IF signed THEN Tail(t) ELSE t
        pre    == Len(u) >= 2 /\ u[1] = "0" /\ u[2] \in {"x", "X"}
        v      == IF pre THEN Slice(u, 2) ELSE u
        d      == IF pre /\ v # <<>> /\ v[1] = "_" THEN Tail(v) ELSE v
    IN  IF ValidDigits(d)
        THEN [ok |-> TRUE, neg |-> (signed /\ t[1] = "-"),
              mag |-> AccumulateDigits(SelectSeq(d, IsDigit), 1, <<>>)]
        ELSE [ok |-> FALSE, neg |-> FALSE, mag |-> <<>>]

\* hexadecimal digits in upper case, as format(n, 'X') gives them
HexDigitsUpper == <<"0","1","2","3","4","5","6","7","8","9","A","B","C","D","E","F">>

HexDigits == <<"0","1","2","3","4","5","6","7","8","9","a","b","c","d","e","f">>

RECURSIVE HexLoop(_, _)
HexLoop(x, acc) ==
    IF x = <<>> THEN acc
    ELSE LET dm     == DivMod(x, HexBase)
             digits == <<HexDigits[dm.rem + 1]>> \o acc
         IN  CASE Strict(digits) -> HexLoop(dm.quot, digits)

\* hex(n) for n >= 0: '0x' and the lowercase digits, '0x0' for zero
hex(x) == <<"0", "x">> \o (IF x = <<>> THEN <<"0">> ELSE HexLoop(x, <<>>))

----------------------------------------------------------------------------
(* The conversions *)

Pending     == [kind |-> "pending", val |-> <<>>]
Returned(v) == [kind |-> "return", val |-> v]
Raised      == [kind |-> "raise", val |-> <<>>]

\* gid_decimal > 0
IsPositive(n) == ~n.neg /\ n.mag # <<>>

\* the while loop of gid_to_tid
RECURSIVE GidToTidLoop(_, _)
GidToTidLoop(gid_decimal, trackid) ==
    IF ~IsPositive(gid_decimal) THEN trackid
    ELSE LET dm        == DivMod(gid_decimal.mag, Base)
             remainder == dm.rem
             prepended == <<BASE62_CHARSET[remainder + 1]>> \o trackid
         IN  CASE Strict(prepended) ->
                 GidToTidLoop([gid_decimal EXCEPT !.mag = dm.quot], prepended)

\* gid_to_tid without the closing swapcase
gid_to_tid_noswap(gid) ==
    LET gid_decimal == ParseInt16(gid)
    IN  IF ~gid_decimal.ok THEN Raised
        ELSE Returned(GidToTidLoop(gid_decimal, <<>>))

gid_to_tid(gid) ==
    LET gid_decimal == ParseInt16(gid)
    IN  IF ~gid_decimal.ok THEN Raised
        ELSE Returned(swapcase(GidToTidLoop(gid_decimal, <<>>)))

\* the for loop with a character outside the alphabet passed over instead
\* of raising
RECURSIVE TidToGidLoopSkipping(_, _, _, _)
TidToGidLoopSkipping(trackid, i, gid_decimal, base) ==
    IF i = 0 THEN [ok |-> TRUE, val |-> gid_decimal]
    ELSE LET index == IndexOf(BASE62_CHARSET, trackid[i])
             total == Add(gid_decimal, MulAdd(base, index - 1, 0))
             power == MulAdd(base, Base, 0)
         IN  IF index = 0
             THEN TidToGidLoopSkipping(trackid, i - 1, gid_decimal, base)
             ELSE CASE Strict(total) /\ Strict(power) ->
                      TidToGidLoopSkipping(trackid, i - 1, total, power)

\* the for loop of tid_to_gid over trackid[::-1]; i is the position in
\* trackid of the next character.  ok = FALSE: BASE62_CHARSET.index raised.
RECURSIVE TidToGidLoop(_, _, _, _)
TidToGidLoop(trackid, i, gid_decimal, base) ==
    IF i = 0 THEN [ok |-> TRUE, val |-> gid_decimal]
    ELSE LET char  == trackid[i]
             index == IndexOf(BASE62_CHARSET, char)
         IN  IF index = 0 THEN [ok |-> FALSE, val |-> <<>>]
             ELSE LET digit == index - 1
                      total == Add(gid_decimal, MulAdd(base, digit, 0))
                      power == MulAdd(base, Base, 0)
                  IN  CASE Strict(total) /\ Strict(power) ->
                          TidToGidLoop(trackid, i - 1, total, power)

tid_to_gid(trackid) ==
    LET swapped == swapcase(trackid)
        loop    == TidToGidLoop(swapped, Len(swapped), <<>>, <<1>>)
    IN  IF ~loop.ok THEN Raised
        ELSE Returned(zfill(Slice(hex(loop.val), 2), GidWidth))

----------------------------------------------------------------------------
(* The client: construction state, headers(), download() *)

Tokens      == {"BQDtoken1", "BQDtoken2"}
TrackIds    == {"6rqhFgbbKwnb9MLmUQDhG6", "not-base62"}
ValidIds    == {"6rqhFgbbKwnb9MLmUQDhG6"}
Directories == {"music", "missing"}
ExistingDirectories == {"music"}
Bytes       == {"a", "b"}
MaxStream   == 2

SeqsUpTo(S, n) == UNION {[1..k -> S] : k \in 0..n}

Streams == SeqsUpTo(Bytes, MaxStream)

NoFile     == [exists |-> FALSE, data |-> <<>>]
File(data) == [exists |-> TRUE, data |-> data]

\* f'{pathlib.Path(directory) / trackid}.ogg'
TargetPath(directory, trackid) == <<directory, trackid, ".ogg">>

Paths == {TargetPath(d, t) : d \in Directories, t \in TrackIds}

NoHeaders == [k \in {} |-> ""]
NoCall    == [trackid |-> "", directory |-> "", stream |-> <<>>,
              outcome |-> "none", at |-> "", prior |-> NoFile]

\* AudioQuality.VERY_HIGH if premium else AudioQuality.HIGH
AudioQuality(premium) == IF premium THEN "VERY_HIGH" ELSE "HIGH"

\* the dictionary with the bare token as Authorization
headers_bare_token ==
    [k \in {"Authorization", "Accept-Language", "Accept"} |->
        IF k = "Authorization" THEN token
        ELSE IF k = "Accept-Language" THEN "en"
        ELSE "application/json"]

\* the dictionary headers() builds from self.token
headers ==
    [k \in {"Authorization", "Accept-Language", "Accept"} |->
        IF k = "Authorization" THEN "Bearer " \o token
        ELSE IF k = "Accept-Language" THEN "en"
        ELSE "application/json"]

\* append mode
OpenModeAppend == "ab"

\* the mode of open() in download
OpenMode == "wb"

\* open(path, mode) succeeds: the directory exists and, in exclusive mode,
\* the file does not
CanOpen(directory, trackid) ==
    /\ directory \in ExistingDirectories
    /\ OpenMode = "xb" => ~fs[TargetPath(directory, trackid)].exists

\* the file right after an open that does not truncate
OpenedKeeping(prior) == IF prior.exists THEN prior ELSE File(<<>>)

\* the file right after open(path, mode): truncated or created empty, kept
\* in append mode
Opened(prior) ==
    IF OpenMode = "ab" /\ prior.exists THEN prior ELSE File(<<>>)

\* f.write(data) of the first n bytes, at the end of what the file holds
Written(file, data, n) == File(file.data \o SubSeq(data, 1, n))

\* how a download() call ends: the file at its path and the call's record
Ends(trackid, directory, stream, outcome, at, file) ==
    /\ fs' = [fs EXCEPT ![TargetPath(directory, trackid)] = file]
    /\ last' = [trackid |-> trackid, directory |-> directory, stream |-> stream,
                outcome |-> outcome, at |-> at,
                prior |-> fs[TargetPath(directory, trackid)]]
    /\ hdr' = NoHeaders
    /\ UNCHANGED <<token, session, issued, created, codecVars>>

\* download() runs to its end
DownloadReturns(trackid, directory, stream) ==
    /\ trackid \in ValidIds
    /\ CanOpen(directory, trackid)
    /\ Ends(trackid, directory, stream, "return", "",
            Written(Opened(fs[TargetPath(directory, trackid)]), stream, Len(stream)))

Download(trackid, directory, premium) ==
    LET prior   == fs[TargetPath(directory, trackid)]
        quality == AudioQuality(premium)
    IN  \* TrackId.from_base62(trackid) raises
        \/ /\ trackid \notin ValidIds
           /\ Ends(trackid, directory, <<>>, "raise", "from_base62", prior)
        \* content_feeder().load(...) raises
        \/ /\ trackid \in ValidIds
           /\ quality \in {"VERY_HIGH", "HIGH"}
           /\ Ends(trackid, directory, <<>>, "raise", "load", prior)
        \* open(...) raises
        \/ /\ trackid \in ValidIds
           /\ \E stream \in Streams :
                Ends(trackid, directory, stream, "raise", "open", prior)
        \* stream.input_stream.stream().read() raises, the file open
        \/ /\ trackid \in ValidIds
           /\ CanOpen(directory, trackid)
           /\ \E stream \in Streams :
                Ends(trackid, directory, stream, "raise", "read", Opened(prior))
        \* f.write(...) or the flush at close raises, n bytes written
        \/ /\ trackid \in ValidIds
           /\ CanOpen(directory, trackid)
           /\ \E stream \in Streams : \E n \in 0..Len(stream) :
                Ends(trackid, directory, stream, "raise", "write",
                     Written(Opened(prior), stream, n))
        \/ \E stream \in Streams : DownloadReturns(trackid, directory, stream)

Headers ==
    /\ hdr' = headers
    /\ UNCHANGED <<token, session, issued, created, fs, last, codecVars>>

----------------------------------------------------------------------------
(* The callers of the conversions *)

MaxShortGid == 3
MaxShortTid == 3

GidChars    == {"0", "1", "a", "F", "g", "_", "-", " "}
GidPrefixes == {<<>>, <<"0", "x">>, <<"0", "X">>, <<"+">>, <<"0", "0">>}
GidHeads    == {"1", "8", "f", "F"}
GidFills    == {"0", "9", "f", "E"}

\* the GIDs of two tracks, and 2^127 + 1
KnownGids == {
    <<"d","3","a","c","a","7","e","4","3","e","3","b","4","5","2","c","b","f","a","9","d","d","d","2","e","a","b","9","4","9","7","e">>,
    <<"1","e","6","0","2","8","d","a","b","8","4","d","4","a","1","7","a","1","b","3","f","b","2","8","a","d","5","1","d","f","5","d">>,
    <<"8","0","0","0","0","0","0","0","0","0","0","0","0","0","0","0","0","0","0","0","0","0","0","0","0","0","0","0","0","0","0","1">>}

ShortGid == SeqsUpTo(GidChars, MaxShortGid)
LongGid  == KnownGids \cup
            {<<h>> \o Fill(f, k) : h \in GidHeads, f \in GidFills, k \in 0..GidWidth}
GidInputs == {p \o b : p \in GidPrefixes, b \in ShortGid \cup LongGid}

TidLengths == 0..22
TidChars   == {"0", "1", "A", "Z", "a", "z", "-"}
TidHeads   == {<<"0">>, <<"0", "0">>, <<"1">>, <<"7">>, <<"8">>, <<"z">>, <<"Z">>}
TidFills   == {"0", "5", "z", "Z"}
KnownTids  == {
    <<"6","r","q","h","F","g","b","b","K","w","n","b","9","M","L","m","U","Q","D","h","G","6">>,
    <<"0","V","j","I","j","W","4","G","l","U","Z","A","M","Y","d","2","v","X","M","i","3","b">>}

\* s with one character that is in no alphabet at position i
Spoil(s, i) == [s EXCEPT ![i] = "-"]

ShortTid == SeqsUpTo(TidChars, MaxShortTid)
CleanTid == KnownTids \cup
            UNION {{h \o Fill(f, k) : f \in TidFills,
                                      k \in {n \in TidLengths : n + Len(h) \in TidLengths}}
                   : h \in TidHeads}
LongTid  == CleanTid \cup
            UNION {{Spoil(s, i) : i \in {1, (Len(s) + 1) \div 2, Len(s)}} : s \in CleanTid}
TidInputs == ShortTid \cup LongTid

CallGidToTid ==
    /\ first = "gid_to_tid" /\ res1 = Pending
    /\ res1' = gid_to_tid(arg)
    /\ UNCHANGED <<arg, first, res2, clientVars>>

ThenTidToGid ==
    /\ first = "gid_to_tid" /\ res1.kind = "return" /\ res2 = Pending
    /\ res2' = tid_to_gid(res1.val)
    /\ UNCHANGED <<arg, first, res1, clientVars>>

CallTidToGid ==
    /\ first = "tid_to_gid" /\ res1 = Pending
    /\ res1' = tid_to_gid(arg)
    /\ UNCHANGED <<arg, first, res2, clientVars>>

ThenGidToTid ==
    /\ first = "tid_to_gid" /\ res1.kind = "return" /\ res2 = Pending
    /\ res2' = gid_to_tid(res1.val)
    /\ UNCHANGED <<arg, first, res1, clientVars>>

----------------------------------------------------------------------------
(* Specifications *)

\* the client as __init__ leaves it, in a directory without downloads
Constructed ==
    /\ token \in Tokens
    /\ issued = token
    /\ session = "session"
    /\ created = session
    /\ fs = [p \in Paths |-> NoFile]
    /\ hdr = NoHeaders
    /\ last = NoCall

InitCodec ==
    /\ \/ first = "gid_to_tid" /\ arg \in GidInputs
       \/ first = "tid_to_gid" /\ arg \in TidInputs
    /\ res1 = Pending
    /\ res2 = Pending
    /\ token = "BQDtoken1"
    /\ Constructed

NextCodec ==
    \/ CallGidToTid
    \/ ThenTidToGid
    \/ CallTidToGid
    \/ ThenGidToTid

SpecCodec == InitCodec /\ [][NextCodec]_vars

InitClient ==
    /\ Constructed
    /\ arg = <<>>
    /\ first = "gid_to_tid"
    /\ res1 = Pending
    /\ res2 = Pending

NextClient ==
    \/ \E trackid \in TrackIds, directory \in Directories, premium \in BOOLEAN :
          Download(trackid, directory, premium)
    \/ Headers

SpecClient == InitClient /\ [][NextClient]_vars

----------------------------------------------------------------------------
(* Reference notions the properties are stated with *)

Alnum == Range(Digits) \cup Range(Upper) \cup Range(Lower)

IsBase62(s) == \A i \in DOMAIN s : s[i] \in Alnum

HexLetters == {"a", "b", "c", "d", "e", "f"}

IsLowerHex(s) == \A i \in DOMAIN s : s[i] \in Range(Digits) \cup HexLetters

\* a non-empty sequence of the digits 0-9, a-f, A-F and nothing else
IsUnsignedHex(s) ==
    /\ s # <<>>
    /\ \A i \in DOMAIN s :
          s[i] \in Range(Digits) \cup HexLetters \cup {"A", "B", "C", "D", "E", "F"}

\* the lowercase rendering of an integer without leading zeros, '0' for zero
IsCanonicalHex(s) == s # <<>> /\ IsLowerHex(s) /\ (Len(s) > 1 => s[1] # "0")

\* the argument is hex(n), with or without the '0x' of Python's hex
HexBody(s) ==
    IF Len(s) >= 2 /\ s[1] = "0" /\ s[2] = "x" THEN SubSeq(s, 3, Len(s)) ELSE s

IsHexRendering(s) == IsCanonicalHex(HexBody(s)) /\ Len(HexBody(s)) <= GidWidth

LeftPad(s, c, n) == IF Len(s) < n THEN Fill(c, n - Len(s)) \o s ELSE s

RECURSIVE StripLeading(_, _)
StripLeading(s, c) ==
    IF s # <<>> /\ s[1] = c THEN StripLeading(SubSeq(s, 2, Len(s)), c) ELSE s

IsPrefix(p, s) == Len(p) <= Len(s) /\ \A i \in DOMAIN p : p[i] = s[i]

\* the value of a base62 symbol of a track id: 0-9, then a-z as 10..35, then
\* A-Z as 36..61
RefDigit(c) ==
    IF IndexOf(Digits, c) # 0 THEN IndexOf(Digits, c) - 1
    ELSE IF IndexOf(Lower, c) # 0 THEN IndexOf(Lower, c) + 9
    ELSE IndexOf(Upper, c) + 35

RefSymbol(v) ==
    IF v < 10 THEN Digits[v + 1]
    ELSE IF v < 36 THEN Lower[v - 9]
    ELSE Upper[v - 35]

\* the integer a track id denotes, most significant symbol first
RECURSIVE RefTidValue(_, _, _)
RefTidValue(s, i, acc) ==
    IF i > Len(s) THEN acc
    ELSE LET value == MulAdd(acc, Base, RefDigit(s[i]))
         IN  CASE Strict(value) -> RefTidValue(s, i + 1, value)

\* the integer a hexadecimal numeral denotes
RECURSIVE RefHexValue(_, _, _)
RefHexValue(s, i, acc) ==
    IF i > Len(s) THEN acc
    ELSE LET value == MulAdd(acc, HexBase, DigitValue(s[i]))
         IN  CASE Strict(value) -> RefHexValue(s, i + 1, value)

\* the same for a numeral short enough for a machine integer, and the
\* base62 digits of such an integer
RECURSIVE SmallHexValue(_, _, _)
SmallHexValue(s, i, acc) ==
    IF i > Len(s) THEN acc
    ELSE SmallHexValue(s, i + 1, acc * HexBase + DigitValue(s[i]))

RECURSIVE RefEncode(_)
RefEncode(n) ==
    IF n = 0 THEN <<>> ELSE Append(RefEncode(n \div Base), RefSymbol(n % Base))

SmallHex == 6

----------------------------------------------------------------------------
(* C1: for every n below 2^128, zero included, tid_to_gid(gid_to_tid(hex(n)))
   is the lowercase hexadecimal rendering of n left-padded with '0' to
   exactly 32 characters. *)
C1_GidRoundTrip ==
    (first = "gid_to_tid" /\ IsHexRendering(arg)) =>
        /\ res1 # Pending => res1.kind = "return"
        /\ res2 # Pending =>
              /\ res2 = Returned(LeftPad(HexBody(arg), "0", GidWidth))
              /\ Len(res2.val) = GidWidth

C1_Witness ==
    /\ first = "gid_to_tid"
    /\ arg = <<"0", "x">> \o Fill("f", GidWidth)
    /\ res2.kind = "return"

(* C2: for every 22-character string t over the 62-symbol alphabet,
   gid_to_tid(tid_to_gid(t)) = t, character for character. *)
C2_TidRoundTrip ==
    (first = "tid_to_gid" /\ IsBase62(arg) /\ Len(arg) + 1 \notin TidLengths
        /\ Len(arg) \in TidLengths) =>
        /\ res1 # Pending => res1.kind = "return"
        /\ res2 # Pending => res2 = Returned(arg)

C4_MalformedTidRaises ==
    (first = "tid_to_gid" /\ ~IsBase62(arg) /\ res1 # Pending) =>
        /\ res1 = Raised
        /\ res2 = Pending

C4_Witness ==
    /\ first = "tid_to_gid"
    /\ Len(arg) > 2
    /\ arg[(Len(arg) + 1) \div 2] \notin Alnum
    /\ \A i \in DOMAIN arg : i # (Len(arg) + 1) \div 2 => arg[i] \in Alnum
    /\ res1 = Raised

(* C5: for every input that is not a non-empty sequence of hexadecimal
   digits only (no sign, prefix, separator or whitespace), gid_to_tid raises
   and returns no identifier; a signed input is rejected. *)
C5_NonHexRaises ==
    (first = "gid_to_tid" /\ ~IsUnsignedHex(arg) /\ res1 # Pending) =>
        res1 = Raised

(* C9: for every string t of 1 to 22 alphabet characters,
   gid_to_tid(tid_to_gid(t)) is t without its leading '0' symbols: t itself
   exactly when t does not begin with '0', the empty string exactly when t
   is all '0'. *)
C9_MinimalDigitRoundTrip ==
    (first = "tid_to_gid" /\ IsBase62(arg) /\ arg # <<>>
        /\ Len(arg) \in TidLengths) =>
        /\ res1 # Pending => res1.kind = "return"
        /\ res2 # Pending =>
              /\ res2 = Returned(StripLeading(arg, "0"))
              /\ res2.val = arg <=> arg[1] # "0"
              /\ res2.val = <<>> <=> \A i \in DOMAIN arg : arg[i] = "0"

C9_Witness ==
    /\ first = "tid_to_gid"
    /\ IsBase62(arg)
    /\ Len(arg) + 1 \notin TidLengths /\ Len(arg) \in TidLengths
    /\ arg[1] = "0" /\ arg[2] = "0" /\ arg[3] = "Z"
    /\ res2.kind = "return"
    /\ Len(res2.val) + 2 = Len(arg)

(* C10: for every hexadecimal numeral of value n (either case, any leading
   zeros) gid_to_tid returns the base62 digits of n, most significant first,
   with 10..35 as lowercase and 36..61 as uppercase letters; the result
   never begins with '0' and is empty exactly when n = 0. *)
C10_ReferenceEncoder ==
    (first = "gid_to_tid" /\ IsUnsignedHex(arg) /\ res1 # Pending) =>
        /\ res1.kind = "return"
        /\ IsBase62(res1.val)
        /\ RefTidValue(res1.val, 1, <<>>) = RefHexValue(arg, 1, <<>>)
        /\ res1.val # <<>> => res1.val[1] # "0"
        /\ res1.val = <<>> <=> \A i \in DOMAIN arg : arg[i] = "0"
        /\ Len(arg) <= SmallHex => res1.val = RefEncode(SmallHexValue(arg, 1, 0))

C10_Witness ==
    /\ first = "gid_to_tid"
    /\ arg = <<"F">> \o Fill("E", GidWidth - 1)
    /\ res1.kind = "return"
    /\ Len(res1.val) + 1 \notin TidLengths
    /\ res1.val[1] = "7"

----------------------------------------------------------------------------
TargetOfLast == TargetPath(last.directory, last.trackid)

(* C6: after any sequence of headers() and download() calls, headers()
   returns exactly the keys Authorization, Accept-Language and Accept, with
   'en', 'application/json' and 'Bearer ' followed by the token obtained at
   construction; no operation changes the stored token or the session. *)
C6_HeadersStable ==
    /\ token = issued
    /\ session = created
    /\ hdr # NoHeaders =>
          /\ DOMAIN hdr = {"Authorization", "Accept-Language", "Accept"}
          /\ hdr["Accept-Language"] = "en"
          /\ hdr["Accept"] = "application/json"
          /\ hdr["Authorization"] = "Bearer " \o issued

C6_Witness ==
    /\ hdr # NoHeaders
    /\ last.outcome = "raise"
    /\ last.at = "write"
    /\ issued = "BQDtoken2"

(* C7 as stated: a download() call that raises at any step never leaves at
   the target path a file it created or truncated that does not hold the
   entire stream. *)
C7_NoPartialFile ==
    (last.outcome = "raise" /\ last.at \in {"read", "write"}) =>
        fs[TargetOfLast] = File(last.stream)

(* C7 amended: a download() call that returns leaves the entire stream at
   the target path; one that raises while resolving the id, loading the
   stream or opening the file leaves the path as it was; one that raises
   while reading the stream leaves an empty file there; one that raises
   while writing leaves a file holding a prefix of the stream. *)
C7_CompleteOrRaises ==
    /\ last.outcome \in {"none", "return", "raise"}
    /\ last.outcome = "return" => fs[TargetOfLast] = File(last.stream)
    /\ last.outcome = "raise" =>
          /\ last.at \in {"from_base62", "load", "open", "read", "write"}
          /\ last.at \in {"from_base62", "load", "open"} =>
                fs[TargetOfLast] = last.prior
          /\ last.at = "read" => fs[TargetOfLast] = File(<<>>)
          /\ last.at = "write" =>
                /\ fs[TargetOfLast].exists
                /\ IsPrefix(fs[TargetOfLast].data, last.stream)

C7_Witness ==
    /\ last.outcome = "raise"
    /\ last.at = "write"
    /\ last.prior = File(<<"b", "b">>)
    /\ last.stream = <<"a", "b">>
    /\ fs[TargetOfLast] = File(<<"a">>)

(* C8: when the target file already exists, download() does not fail
   because of it, and on return the file holds exactly the stream of the
   latest call, nothing of the previous content kept or appended to. *)
C8_Overwrites ==
    /\ last.outcome = "return" => fs[TargetOfLast] = File(last.stream)
    /\ \A t \in ValidIds, d \in ExistingDirectories, s \in Streams :
          fs[TargetPath(d, t)].exists => ENABLED DownloadReturns(t, d, s)

C8_Witness ==
    /\ last.outcome = "return"
    /\ last.prior = File(<<"a", "b">>)
    /\ last.stream = <<"b">>
    /\ fs[TargetOfLast] = File(<<"b">>)

====
